---- MODULE Spec2Model ----
(***************************************************************************)
(* Model of doozerlib/brew.py: the single- and multi-task watchers, the    *)
(* task snapshot store and its readers, the tag-change cache, the retrying *)
(* koji wrapper and the batch query helpers.                               *)
(***************************************************************************)
EXTENDS Integers, Sequences, FiniteSets, TLC

\* ------------------------------------------------------------------ bounds
\* Number of task ids handed to watch_tasks.
NumTasks == 2
\* Number of passes of the watch_tasks loop that are explored.
MaxPasses == 10
\* Number of threads calling tags_changed_since_build.
NumThreads == 2
\* Number of distinct tag ids.
NumTags == 2
\* Largest create_event ordinal of the remote tag history.
MaxEvent == 2
\* Number of tags_changed_since_build calls each thread makes.
MaxCalls == 2
\* Largest number of tag ids handed to one tags_changed_since_build call.
MaxTagIds == 1
\* Number of passes of watch_tasks during which status queries may raise
\* while readers copy watch_task_info.
MaxErrorPasses == 2
\* Longest input list handed to a batch query helper.
MaxInputs == 2

\* --------------------------------------------------------- program values
None == "<None>"
WaitTimeout == 3 * 60
Deadline == 4 * 60 * 60
GiveUpAfter == 10
Retries == 4
\* The time a status query takes (any duration is possible; two are
\* modelled: an immediate answer and one that outlasts the deadline).
QueryDurations == {0, Deadline}

ConnectionError == "ConnectionError"
\* an error of the remote service that is no connection error (koji.GenericError)
GenericError == "GenericError"
\* what watcher.update() raises in this model: the transient connection error
Exceptions == {ConnectionError}
\* koji.TASK_STATES as observed in watcher.info['state']: one state of a task
\* that is not done, the state of a successful one, one of a failed one.
TaskStates == {"OPEN", "CLOSED", "FAILED"}
\* The number of transient connection errors the wire answers to one status
\* query before its final answer: none, or a single one.
Transients == {0, 1}
\* What one attempt of the status query answers when it is not a transient
\* connection error.
FinalOutcomes == TaskStates

TheTask == 1
TaskIds == 1..NumTasks
Threads == 1..NumThreads
TagIds == 1..NumTags

VARIABLES
    clock,              \* time.time()
    terminate_event,    \* terminate_event.is_set()
    watch_task_info,    \* module dict: task id -> last watcher.info
    log_lines,          \* the set of lines handed to log_f
    \* watch_task locals
    pc,                 \* position of watch_task
    end,                \* deadline of watch_task
    error,
    except_count,
    result,             \* value returned by watch_task
    cancel_calls,       \* number of "brew cancel <task_id>" commands run
    \* watch_tasks parameters and locals
    wts_pc,             \* position of watch_tasks
    task_ids,           \* the submitted task ids
    wts_end,            \* deadline of watch_tasks
    errors,
    except_counts,
    tasks_to_poll,
    tasks_to_cancel,
    pending,            \* tasks of tasks_to_poll.copy() not yet visited in this pass
    passes,             \* number of passes of the while loop started
    wts_result,         \* mapping returned by watch_tasks
    cancelTask_calls,   \* task ids session.cancelTask(task_id, recurse=True) was called for
    \* observations of the stubbed remote service
    queries,            \* number of watcher.update() calls watch_task made
    streak,             \* number of trailing update() calls that raised
    prev_streak,        \* streak before the last update() call
    wire,               \* the last update(): task, transient errors on the wire, exception seen
    cancel_failed,      \* the brew cancel command exited non-zero
    preset,             \* terminate_event was set before the first poll
    \* tags_changed_since_build
    latest_tag_change_cache,  \* module dict: tag id -> tagHistory answer
    tag_history,        \* remote: create_event of the newest event of each tag, 0 for none
    calls,              \* per thread, the running call of tags_changed_since_build
    calls_made,         \* per thread, number of calls started
    tagHistory_calls,   \* per tag id, number of koji_client.tagHistory calls
    \* KojiWrapper
    wrapped_calls,      \* per thread, the running call of KojiWrapper.__call__
    \* batch query helpers
    batch,              \* the running call of a batch query helper
    \* readers of watch_task_info
    info_copy           \* the dict last returned by get_watch_task_info_copy

wtVars == <<pc, end, error, except_count, result, cancel_calls>>
envVars == <<clock, terminate_event, watch_task_info, log_lines>>
wtsVars == <<wts_pc, task_ids, wts_end, errors, except_counts, tasks_to_poll,
             tasks_to_cancel, pending, passes, wts_result, cancelTask_calls>>
obsVars == <<queries, streak, prev_streak, wire, cancel_failed, preset>>
tagVars == <<latest_tag_change_cache, tag_history, calls, calls_made, tagHistory_calls>>
kwVars == <<wrapped_calls>>
mcVars == <<batch>>
readerVars == <<info_copy>>
libVars == <<kwVars, mcVars, readerVars>>
vars == <<envVars, wtVars, wtsVars, obsVars, tagVars, libVars>>

\* ------------------------------------------------------- remote session
\* The attempts the wire would answer to one remote call: n transient
\* connection errors, then final.
WireSeq(n, final) == [i \in 1..Retries |-> IF i <= n THEN ConnectionError ELSE final]

RECURSIVE KojiWrapper_call(_, _)
\* KojiWrapper.__call__: retries = 4; a ConnectionError is retried until the
\* retries are used up, anything else is returned or raised at once.
KojiWrapper_call(attempts, retries) ==
    IF Head(attempts) # ConnectionError THEN Head(attempts)
    ELSE IF retries - 1 = 0 THEN ConnectionError
    ELSE KojiWrapper_call(Tail(attempts), retries - 1)

\* A session wrapped in KojiWrapper (a slip the watchers do not make).
KojiWrapper_session_call(attempts) == KojiWrapper_call(attempts, Retries)

\* The watchers call a plain koji.ClientSession (brew.py:50, brew.py:89): one
\* attempt, whose result or exception is what watcher.update() gives.
ClientSession_call(attempts) == Head(attempts)

\* koji_cli.lib.TaskWatcher
is_done(state) == state \in {"CLOSED", "FAILED"}
is_success(state) == state = "CLOSED"
get_failure(state) == "Failure: task " \o state

format_exc(exc) == "Traceback: " \o exc

\* ------------------------------------------------- state shared by watchers
\* watcher.info, the payload of a status query (getTaskInfo): the task's id,
\* its state, and its completion time, which the remote sets once it is done
task_info(task_id, state) ==
    [id |-> task_id, state |-> state,
     completion_ts |-> IF is_done(state) THEN "set" ELSE None]
NoInfo == [id |-> 0, state |-> None, completion_ts |-> None]
NoWire == [task |-> 0, transients |-> 0, raised |-> None, info |-> NoInfo]
EmptyDict == [t \in {} |-> None]

\* d[k] = v of a Python dict
DictSet(d, k, v) == [x \in DOMAIN d \cup {k} |-> IF x = k THEN v ELSE d[x]]

\* a write that keeps the fields of the entry it finds and takes over the state
snapshot_merge(d, task_id, info) ==
    IF task_id \in DOMAIN d
    THEN [d EXCEPT ![task_id] = [@ EXCEPT !.state = info.state]]
    ELSE DictSet(d, task_id, info)

\* brew.py:60-61, 105-106: watch_task_info[task_id] = dict(watcher.info),
\* under watch_task_lock
snapshot_write(d, task_id, info) == DictSet(d, task_id, info)

InitEnv ==
    /\ clock = 0
    /\ terminate_event \in BOOLEAN
    /\ watch_task_info = EmptyDict
    /\ log_lines = {}

InitObs ==
    /\ queries = 0
    /\ streak = 0
    /\ prev_streak = 0
    /\ wire = NoWire
    /\ cancel_failed = FALSE
    /\ preset = terminate_event

\* The counter is not reset by a successful update().
next_except_count_noreset(count, raised) == IF raised THEN count + 1 ELSE count

\* except_count after one pass through the try block: reset by a successful
\* update() (brew.py:57, 103), incremented by the except clause (brew.py:67, 112).
next_except_count(count, raised) == IF raised THEN count + 1 ELSE 0

\* brew.py:70, 115
gives_up(count) == count >= GiveUpAfter

\* The deadline is tested before the termination signal.
wait_error_deadline_first(signalled, now, deadline, err) ==
    IF now > deadline THEN "Timeout building image"
    ELSE IF signalled THEN "Interrupted"
    ELSE err

\* The termination wait is ignored.
wait_error_nosignal(signalled, now, deadline, err) ==
    IF now > deadline THEN "Timeout building image" ELSE err

\* brew.py:75-78: the value of error after the termination wait and the
\* deadline test.
wait_error(signalled, now, deadline, err) ==
    IF signalled THEN "Interrupted"
    ELSE IF now > deadline THEN "Timeout building image"
    ELSE err

\* ------------------------------------------------------------ watch_task
InitWT ==
    /\ pc = "update"
    /\ end = clock + Deadline
    /\ error = None
    /\ except_count = 0
    /\ result = None
    /\ cancel_calls = 0

IdleWT ==
    /\ pc = "idle"
    /\ end = 0
    /\ error = None
    /\ except_count = 0
    /\ result = None
    /\ cancel_calls = 0

\* The body of the try block and its except clause (brew.py:55-73).
watch_task_update(n, final, d) ==
    LET seen == ClientSession_call(WireSeq(n, final))
        raised == seen \in Exceptions
    IN
    /\ pc = "update"
    /\ clock' = clock + d
    /\ queries' = queries + 1
    /\ prev_streak' = streak
    /\ streak' = IF raised THEN streak + 1 ELSE 0
    /\ wire' = [task |-> TheTask, transients |-> n,
                raised |-> IF raised THEN seen ELSE None,
                info |-> IF raised THEN NoInfo ELSE task_info(TheTask, seen)]
    /\ except_count' = next_except_count(except_count, raised)
    /\ IF raised
       THEN /\ UNCHANGED <<watch_task_info, result>>
            /\ IF gives_up(except_count')
               THEN /\ log_lines' = log_lines \cup
                          {<<"watcher.update() exception", format_exc(seen)>>,
                           <<"watcher.update() excepted 10 times. Giving up.">>}
                    /\ error' = format_exc(seen)
                    /\ pc' = "cancel"
               ELSE /\ log_lines' = log_lines \cup
                          {<<"watcher.update() exception", format_exc(seen)>>}
                    /\ error' = error
                    /\ pc' = "wait"
       ELSE /\ watch_task_info' = snapshot_write(watch_task_info, TheTask, task_info(TheTask, seen))
            /\ error' = error
            /\ IF is_done(seen)
               THEN /\ result' = IF is_success(seen) THEN None ELSE get_failure(seen)
                    /\ pc' = "returned"
                    /\ log_lines' = log_lines
               ELSE /\ result' = result
                    /\ pc' = "wait"
                    /\ log_lines' = log_lines \cup {<<"Task state: ", seen>>}
    /\ UNCHANGED <<tagVars, libVars>>
    /\ UNCHANGED <<terminate_event, end, cancel_calls, cancel_failed, preset, wtsVars>>

\* terminate_event.wait(timeout=3 * 60) and the deadline test (brew.py:75-78),
\* then the loop condition (brew.py:54).
watch_task_wait ==
    /\ pc = "wait"
    /\ clock' = IF terminate_event THEN clock ELSE clock + WaitTimeout
    /\ error' = wait_error(terminate_event, clock', end, error)
    /\ pc' = IF error' = None THEN "update" ELSE "cancel"
    /\ UNCHANGED <<tagVars, libVars>>
    /\ UNCHANGED <<terminate_event, watch_task_info, log_lines, end, except_count,
                   result, cancel_calls, obsVars, wtsVars>>

\* The error is returned without running the cancel command.
watch_task_cancel_skipped(returncode) ==
    /\ pc = "cancel"
    /\ log_lines' = log_lines \cup {<<error, ", canceling build">>}
    /\ pc' = "returned"
    /\ result' = error
    /\ UNCHANGED <<tagVars, libVars>>
    /\ UNCHANGED <<clock, terminate_event, watch_task_info, end, error, except_count,
                   cancel_calls, obsVars, wtsVars>>

\* brew.py:80-82; subprocess.check_call raises CalledProcessError when the
\* command exits non-zero.
watch_task_cancel(returncode) ==
    /\ pc = "cancel"
    /\ log_lines' = log_lines \cup {<<error, ", canceling build">>}
    /\ cancel_calls' = cancel_calls + 1
    /\ cancel_failed' = (returncode # 0)
    /\ IF returncode = 0
       THEN pc' = "returned" /\ result' = error
       ELSE pc' = "raised" /\ result' = "CalledProcessError"
    /\ UNCHANGED <<tagVars, libVars>>
    /\ UNCHANGED <<clock, terminate_event, watch_task_info, end, error, except_count,
                   queries, streak, prev_streak, wire, preset, wtsVars>>

\* Another thread sets the termination event.
set_terminate_event ==
    /\ pc \in {"update", "wait", "cancel"} \/ wts_pc \in {"start", "poll", "cancel"}
    /\ ~terminate_event
    /\ terminate_event' = TRUE
    /\ UNCHANGED <<tagVars, libVars>>
    /\ UNCHANGED <<clock, watch_task_info, log_lines, wtVars, wtsVars, obsVars>>

\* ----------------------------------------------------------- watch_tasks
InitWTs ==
    /\ wts_pc = "start"
    /\ task_ids \in SUBSET TaskIds
    /\ wts_end = 0
    /\ errors = EmptyDict
    /\ except_counts = EmptyDict
    /\ tasks_to_poll = {}
    /\ tasks_to_cancel = {}
    /\ pending = {}
    /\ passes = 0
    /\ wts_result = EmptyDict
    /\ cancelTask_calls = {}

IdleWTs ==
    /\ wts_pc = "idle"
    /\ task_ids = {}
    /\ wts_end = 0
    /\ errors = EmptyDict
    /\ except_counts = EmptyDict
    /\ tasks_to_poll = {}
    /\ tasks_to_cancel = {}
    /\ pending = {}
    /\ passes = 0
    /\ wts_result = EmptyDict
    /\ cancelTask_calls = {}

Min(S) == CHOOSE x \in S : \A y \in S : x <= y

\* brew.py:86-97
watch_tasks_start ==
    /\ wts_pc = "start"
    /\ IF task_ids = {}
       THEN /\ wts_pc' = "returned_none"
            /\ UNCHANGED <<wts_end, except_counts, tasks_to_poll, pending, passes>>
       ELSE /\ wts_pc' = "poll"
            /\ passes' = 1
            /\ wts_end' = clock + Deadline
            /\ except_counts' = [t \in task_ids |-> 0]
            /\ tasks_to_poll' = task_ids
            /\ pending' = task_ids
    /\ UNCHANGED <<tagVars, libVars>>
    /\ UNCHANGED <<task_ids, errors, tasks_to_cancel, wts_result, cancelTask_calls,
                   envVars, wtVars, obsVars>>

\* one counter serves all the tasks
counted_for_all(counts, task_id, count) == [t \in DOMAIN counts |-> count]

\* brew.py:103, 112: except_counts[task_id] = 0, except_counts[task_id] += 1
counted(counts, task_id, count) == [counts EXCEPT ![task_id] = count]

\* One pass of the for loop over tasks_to_poll.copy() (brew.py:99-119).
watch_tasks_update(n, final, d) ==
    LET task_id == Min(pending)
        seen == ClientSession_call(WireSeq(n, final))
        raised == seen \in Exceptions
        count == next_except_count(except_counts[task_id], raised)
    IN
    /\ wts_pc = "poll"
    /\ pending # {}
    /\ clock' = clock + d
    /\ wire' = [task |-> task_id, transients |-> n,
                raised |-> IF raised THEN seen ELSE None,
                info |-> IF raised THEN NoInfo ELSE task_info(task_id, seen)]
    /\ except_counts' = counted(except_counts, task_id, count)
    /\ pending' = pending \ {task_id}
    /\ IF raised
       THEN /\ UNCHANGED watch_task_info
            /\ IF gives_up(count)
               THEN /\ log_lines' = log_lines \cup
                          {<<"watcher.update() exception", format_exc(seen)>>,
                           <<"watcher.update() excepted 10 times. Giving up.">>}
                    /\ errors' = DictSet(errors, task_id, format_exc(seen))
                    /\ tasks_to_cancel' = tasks_to_cancel \cup {task_id}
                    /\ tasks_to_poll' = tasks_to_poll \ {task_id}
               ELSE /\ log_lines' = log_lines \cup
                          {<<"watcher.update() exception", format_exc(seen)>>}
                    /\ UNCHANGED <<errors, tasks_to_cancel, tasks_to_poll>>
       ELSE /\ watch_task_info' = snapshot_write(watch_task_info, task_id, task_info(task_id, seen))
            /\ log_lines' = log_lines \cup {<<"Task ", task_id, " state: ", seen>>}
            /\ UNCHANGED tasks_to_cancel
            /\ IF is_done(seen)
               THEN /\ errors' = DictSet(errors, task_id,
                                    IF is_success(seen) THEN None ELSE get_failure(seen))
                    /\ tasks_to_poll' = tasks_to_poll \ {task_id}
               ELSE UNCHANGED <<errors, tasks_to_poll>>
    /\ UNCHANGED <<tagVars, libVars>>
    /\ UNCHANGED <<terminate_event, wts_pc, task_ids, wts_end, passes, wts_result,
                   cancelTask_calls, queries, streak, prev_streak, cancel_failed,
                   preset, wtVars>>

\* the detail is recorded for every submitted task
mark_every_task(detail) == [t \in task_ids |-> detail]

\* errors[task_id] = detail for every task still polled (brew.py:123-125, 128-130)
mark_remaining(detail) ==
    [t \in DOMAIN errors \cup tasks_to_poll |->
        IF t \in tasks_to_poll THEN detail ELSE errors[t]]

\* every submitted task is visited in every pass
copy_every_task(polled) == task_ids

\* brew.py:99: tasks_to_poll.copy(), the tasks the next pass visits
copy_to_poll(polled) == polled

\* The loop exit tests after a pass (brew.py:120-131).
watch_tasks_check ==
    /\ wts_pc = "poll"
    /\ pending = {}
    /\ IF tasks_to_poll = {}
       THEN /\ wts_pc' = "cancel"
            /\ UNCHANGED <<clock, errors, tasks_to_cancel, pending, passes>>
       ELSE IF terminate_event
       THEN /\ wts_pc' = "cancel"
            /\ tasks_to_cancel' = tasks_to_cancel \cup tasks_to_poll
            /\ errors' = mark_remaining("Interrupted")
            /\ UNCHANGED <<clock, pending, passes>>
       ELSE /\ clock' = clock + WaitTimeout
            /\ IF clock' > wts_end
               THEN /\ wts_pc' = "cancel"
                    /\ tasks_to_cancel' = tasks_to_cancel \cup tasks_to_poll
                    /\ errors' = mark_remaining("Timeout watching task")
                    /\ UNCHANGED <<pending, passes>>
               ELSE /\ passes < MaxPasses
                    /\ wts_pc' = "poll"
                    /\ pending' = copy_to_poll(tasks_to_poll)
                    /\ passes' = passes + 1
                    /\ UNCHANGED <<errors, tasks_to_cancel>>
    /\ UNCHANGED <<tagVars, libVars>>
    /\ UNCHANGED <<terminate_event, watch_task_info, log_lines, task_ids, wts_end,
                   except_counts, tasks_to_poll, wts_result, cancelTask_calls,
                   wtVars, obsVars>>

\* errors + ", canceling builds" (brew.py:133): dict + str raises TypeError.
dict_plus_str_raises == TRUE

\* brew.py:132-141; canceled is what session.cancelTask answers.
watch_tasks_cancel(canceled) ==
    /\ wts_pc = "cancel"
    /\ IF tasks_to_cancel # {}
       THEN IF dict_plus_str_raises
            THEN /\ wts_pc' = "raised"
                 /\ UNCHANGED <<log_lines, cancelTask_calls, wts_result>>
            ELSE /\ wts_pc' = "returned"
                 /\ wts_result' = errors
                 /\ cancelTask_calls' = cancelTask_calls \cup tasks_to_poll
                 /\ log_lines' = log_lines \cup
                       {<<"Error waiting for Brew task ", t, errors[t]>> : t \in tasks_to_poll}
                       \cup {<<"Brew task ", t, IF canceled THEN " was canceled."
                                                ELSE " was NOT canceled.">> : t \in tasks_to_poll}
       ELSE /\ wts_pc' = "returned"
            /\ wts_result' = errors
            /\ UNCHANGED <<log_lines, cancelTask_calls>>
    /\ UNCHANGED <<tagVars, libVars>>
    /\ UNCHANGED <<clock, terminate_event, watch_task_info, task_ids, wts_end, errors,
                   except_counts, tasks_to_poll, tasks_to_cancel, pending, passes,
                   wtVars, obsVars>>

\* ------------------------------------------------ tags_changed_since_build
\* A call that is not running.
NoCall == [pc |-> "idle", build_event_id |-> 0, tag_ids |-> <<>>, i |-> 0,
           tag_changes |-> <<>>, result |-> <<>>]

InitTagState ==
    /\ latest_tag_change_cache = EmptyDict
    /\ tag_history = [t \in TagIds |-> 0]
    /\ calls = [th \in Threads |-> NoCall]
    /\ calls_made = [th \in Threads |-> 0]
    /\ tagHistory_calls = [t \in TagIds |-> 0]

IdleTags ==
    /\ latest_tag_change_cache = EmptyDict
    /\ tag_history = [t \in TagIds |-> 0]
    /\ calls = [th \in Threads |-> NoCall]
    /\ calls_made = [th \in Threads |-> 0]
    /\ tagHistory_calls = [t \in TagIds |-> 0]

\* koji_client.tagHistory(tag=tid, queryOpts={'limit': 1}): the newest event
\* of the tag, or the empty list.
tagHistory(tid) ==
    IF tag_history[tid] = 0 THEN <<>>
    ELSE <<[tag_id |-> tid, create_event |-> tag_history[tid]]>>

\* a comparison that also lets an event equal to the build's through
append_if_not_older(res, tag_changes, build_event_id) ==
    IF tag_changes # <<>> /\ tag_changes[1].create_event >= build_event_id
    THEN Append(res, tag_changes[1])
    ELSE res

\* brew.py:288-292: result after tag_changes has been examined.
append_if_newer(res, tag_changes, build_event_id) ==
    IF tag_changes # <<>> /\ tag_changes[1].create_event > build_event_id
    THEN Append(res, tag_changes[1])
    ELSE res

\* The call after one tag id has been dealt with: the next tag id, or the
\* return of result (brew.py:278, 295).
next_tag(c, tag_changes) ==
    LET res == append_if_newer(c.result, tag_changes, c.build_event_id) IN
    [c EXCEPT !.result = res,
              !.tag_changes = <<>>,
              !.i = IF c.i < Len(c.tag_ids) THEN c.i + 1 ELSE c.i,
              !.pc = IF c.i < Len(c.tag_ids) THEN "lookup" ELSE "done"]

\* brew.py:274-277
tags_changed_since_build(th, build_event_id, tag_ids) ==
    /\ calls[th].pc \in {"idle", "done"}
    /\ calls_made[th] < MaxCalls
    /\ calls_made' = [calls_made EXCEPT ![th] = @ + 1]
    /\ calls' = [calls EXCEPT ![th] =
                    [pc |-> "lookup", build_event_id |-> build_event_id,
                     tag_ids |-> tag_ids, i |-> 1, tag_changes |-> <<>>,
                     result |-> <<>>]]
    /\ UNCHANGED <<latest_tag_change_cache, tag_history, tagHistory_calls>>
    /\ UNCHANGED <<envVars, wtVars, wtsVars, obsVars, libVars>>

\* brew.py:279-282 (and 288-292 on a hit): the cache is read under cache_lock.
cache_lookup(th) ==
    LET c == calls[th]
        tid == c.tag_ids[c.i]
    IN
    /\ c.pc = "lookup"
    /\ IF tid \in DOMAIN latest_tag_change_cache
       THEN calls' = [calls EXCEPT ![th] = next_tag(c, latest_tag_change_cache[tid])]
       ELSE calls' = [calls EXCEPT ![th].pc = "fetch"]
    /\ UNCHANGED <<latest_tag_change_cache, tag_history, calls_made, tagHistory_calls>>
    /\ UNCHANGED <<envVars, wtVars, wtsVars, obsVars, libVars>>

\* brew.py:284: the remote call, made without holding cache_lock.
fetch_tag_history(th) ==
    LET c == calls[th]
        tid == c.tag_ids[c.i]
    IN
    /\ c.pc = "fetch"
    /\ calls' = [calls EXCEPT ![th].pc = "store", ![th].tag_changes = tagHistory(tid)]
    /\ tagHistory_calls' = [tagHistory_calls EXCEPT ![tid] = @ + 1]
    /\ UNCHANGED <<latest_tag_change_cache, tag_history, calls_made>>
    /\ UNCHANGED <<envVars, wtVars, wtsVars, obsVars, libVars>>

\* brew.py:285-292: the answer is stored under cache_lock, then examined.
cache_store(th) ==
    LET c == calls[th]
        tid == c.tag_ids[c.i]
    IN
    /\ c.pc = "store"
    /\ latest_tag_change_cache' = DictSet(latest_tag_change_cache, tid, c.tag_changes)
    /\ calls' = [calls EXCEPT ![th] = next_tag(c, c.tag_changes)]
    /\ UNCHANGED <<tag_history, calls_made, tagHistory_calls>>
    /\ UNCHANGED <<envVars, wtVars, wtsVars, obsVars, libVars>>

\* The remote service records a new event for a tag.
tag_event(tid) ==
    /\ tag_history[tid] < MaxEvent
    /\ tag_history' = [tag_history EXCEPT ![tid] = @ + 1]
    /\ UNCHANGED <<latest_tag_change_cache, calls, calls_made, tagHistory_calls>>
    /\ UNCHANGED <<envVars, wtVars, wtsVars, obsVars, libVars>>

\* the lists of tag ids handed to a call
TagIdLists == UNION {[1..k -> TagIds] : k \in 1..MaxTagIds}

\* ---------------------------------------------- get_watch_task_info_copy
\* brew.py:36-43: a reader takes dict(watch_task_info) under watch_task_lock.
get_watch_task_info_copy ==
    /\ info_copy' = watch_task_info
    /\ UNCHANGED <<envVars, wtVars, wtsVars, obsVars, tagVars, kwVars, mcVars>>

\* ------------------------------------------------------------ KojiWrapper
\* what the wrapped callable returns when it does not raise
Values == {"value a", "value b"}
\* what one invocation of the wrapped callable does: it returns a value or
\* raises a connection error or another error
WrappedAnswers == Values \cup {ConnectionError, GenericError}

NoException == [type |-> None, attempt |-> 0]
\* A call of the wrapper that is not running.
NoWrapped == [pc |-> "idle", retries |-> 0, invocations |-> 0, sleeps |-> 0,
              ce |-> NoException, returned |-> [value |-> None, attempt |-> 0],
              raised |-> NoException]

IdleKW == wrapped_calls = [th \in Threads |-> NoWrapped]

\* brew.py:306-308: retries = 4 and the loop is entered.
KojiWrapper_enter(th) ==
    /\ wrapped_calls[th].pc \in {"idle", "returned", "raised"}
    /\ wrapped_calls' = [wrapped_calls EXCEPT ![th] =
                            [NoWrapped EXCEPT !.pc = "try", !.retries = Retries]]
    /\ UNCHANGED <<envVars, wtVars, wtsVars, obsVars, tagVars, mcVars, readerVars>>

\* Every exception of the wrapped callable is caught.
wrapped_call_catch_all(th, answer) ==
    LET w == wrapped_calls[th]
        k == w.invocations + 1
    IN
    /\ w.pc = "try"
    /\ w.retries > 0
    /\ wrapped_calls' = [wrapped_calls EXCEPT ![th] =
          IF answer \in Values
          THEN [w EXCEPT !.invocations = k, !.pc = "returned",
                         !.returned = [value |-> answer, attempt |-> k]]
          ELSE [w EXCEPT !.invocations = k, !.pc = "except",
                         !.ce = [type |-> answer, attempt |-> k]]]
    /\ UNCHANGED <<envVars, wtVars, wtsVars, obsVars, tagVars, mcVars, readerVars>>

\* brew.py:307-310: one pass of the try block: the wrapped callable is
\* invoked; its value is returned, a ConnectionError is caught as ce, any
\* other exception leaves __call__.
wrapped_call(th, answer) ==
    LET w == wrapped_calls[th]
        k == w.invocations + 1
    IN
    /\ w.pc = "try"
    /\ w.retries > 0
    /\ wrapped_calls' = [wrapped_calls EXCEPT ![th] =
          IF answer \in Values
          THEN [w EXCEPT !.invocations = k, !.pc = "returned",
                         !.returned = [value |-> answer, attempt |-> k]]
          ELSE IF answer = ConnectionError
          THEN [w EXCEPT !.invocations = k, !.pc = "except",
                         !.ce = [type |-> answer, attempt |-> k]]
          ELSE [w EXCEPT !.invocations = k, !.pc = "raised",
                         !.raised = [type |-> answer, attempt |-> k]]]
    /\ UNCHANGED <<envVars, wtVars, wtsVars, obsVars, tagVars, mcVars, readerVars>>

\* The first connection error is raised again at once.
KojiWrapper_except_no_retry(th) ==
    LET w == wrapped_calls[th] IN
    /\ w.pc = "except"
    /\ wrapped_calls' = [wrapped_calls EXCEPT ![th] =
          [w EXCEPT !.sleeps = @ + 1, !.retries = @ - 1,
                    !.pc = "raised", !.raised = w.ce]]
    /\ UNCHANGED <<envVars, wtVars, wtsVars, obsVars, tagVars, mcVars, readerVars>>

\* brew.py:311-315: the except clause: time.sleep(5), retries -= 1, and
\* raise ce when no retry is left.
KojiWrapper_except(th) ==
    LET w == wrapped_calls[th] IN
    /\ w.pc = "except"
    /\ wrapped_calls' = [wrapped_calls EXCEPT ![th] =
          [w EXCEPT !.sleeps = @ + 1, !.retries = @ - 1,
                    !.pc = IF w.retries - 1 = 0 THEN "raised" ELSE "try",
                    !.raised = IF w.retries - 1 = 0 THEN w.ce ELSE @]]
    /\ UNCHANGED <<envVars, wtVars, wtsVars, obsVars, tagVars, mcVars, readerVars>>

\* ---------------------------------------------------- batch query helpers
\* the helpers and the remote method each one enqueues
Helpers == {"get_build_objects", "get_latest_builds", "get_tagged_builds",
            "list_archives_by_builds", "get_builds_tags", "list_image_rpms",
            "list_build_rpms"}
method_of(helper) ==
    CASE helper = "get_build_objects" -> "getBuild"
      [] helper = "get_latest_builds" -> "getLatestBuilds"
      [] helper = "get_tagged_builds" -> "listTagged"
      [] helper = "list_archives_by_builds" -> "listArchives"
      [] helper = "get_builds_tags" -> "listTags"
      [] helper = "list_image_rpms" -> "listRPMs"
      [] helper = "list_build_rpms" -> "listBuildRPMs"

\* The elements of an input list: 0 stands for a falsy one (None, 0, ''), the
\* others for builds, tags or images known to the remote service.
InputElements == {0, 1, 2, 3}
InputLists == UNION {[1..k -> InputElements] : k \in 0..MaxInputs}
falsy(x) == x = 0

\* no helper leaves an input out
skips_nothing(helper) == FALSE

\* brew.py:171-173, 206-208: the helpers whose loop appends None for a falsy
\* input and continues without a sub-request.
skips_falsy(helper) == helper \in {"get_latest_builds", "list_archives_by_builds"}

\* remote listArchives: the archives of a build, one per arch
listArchives(build_id) ==
    CASE build_id = 1 -> <<[id |-> "archive 1/x86_64", rpms |-> None],
                           [id |-> "archive 1/s390x", rpms |-> None]>>
      [] build_id = 2 -> <<[id |-> "archive 2/x86_64", rpms |-> None]>>
      [] OTHER -> <<>>
\* remote listRPMs
listRPMs(image_id) == "rpms of " \o image_id

\* task.result of a sub-request once the multicall has been executed
task_result(req) ==
    [method |-> req.method, arg |-> req.arg,
     items |-> IF req.method = "listArchives" THEN listArchives(req.arg) ELSE <<>>]
\* Python None at a position of a returned list
NoneResult == [method |-> None, arg |-> 0, items |-> <<>>]

NoBatch == [pc |-> "idle", helper |-> None, inputs |-> <<>>, tasks |-> <<>>,
            requests |-> <<>>, output |-> <<>>, rpm_requests |-> <<>>]
IdleBatch == batch = NoBatch
IdleLib == IdleKW /\ IdleBatch /\ info_copy = EmptyDict

\* tasks after the loop inside the multicall block: per input position the
\* number of its sub-request, 0 where None was appended instead
enqueue_tasks(helper, inputs) ==
    [i \in 1..Len(inputs) |->
        IF skips_falsy(helper) /\ falsy(inputs[i]) THEN 0
        ELSE Cardinality({j \in 1..i : ~(skips_falsy(helper) /\ falsy(inputs[j]))})]
\* the sub-requests of the multicall, in the order they were enqueued
enqueue_requests(helper, inputs) ==
    LET tasks == enqueue_tasks(helper, inputs)
        n == Cardinality({i \in 1..Len(inputs) : tasks[i] # 0})
    IN [k \in 1..n |->
           [method |-> method_of(helper),
            arg |-> inputs[CHOOSE i \in 1..Len(inputs) : tasks[i] = k]]]

\* brew.py:154-157, 168-174, 189-192, 203-209, 228-231, 241-243, 253-255: a
\* helper is called and fills the multicall.
batch_enqueue(helper, inputs) ==
    /\ batch.pc \in {"idle", "returned", "raised"}
    /\ batch' = [NoBatch EXCEPT !.pc = "multicall", !.helper = helper,
                                !.inputs = inputs,
                                !.tasks = enqueue_tasks(helper, inputs),
                                !.requests = enqueue_requests(helper, inputs)]
    /\ UNCHANGED <<envVars, wtVars, wtsVars, obsVars, tagVars, kwVars, readerVars>>

\* brew.py:158, 175, 193, 210, 232, 244, 256: the multicall block is left,
\* which sends the sub-requests (strict=True: a fault of any of them raises),
\* and the list of results is built.
batch_execute(fault) ==
    /\ batch.pc = "multicall"
    /\ IF fault
       THEN batch' = [batch EXCEPT !.pc = "raised"]
       ELSE batch' = [batch EXCEPT
               !.output = [i \in 1..Len(batch.tasks) |->
                              IF batch.tasks[i] = 0 THEN NoneResult
                              ELSE task_result(batch.requests[batch.tasks[i]])],
               !.pc = IF batch.helper = "list_archives_by_builds"
                      THEN "archives" ELSE "returned"]
    /\ UNCHANGED <<envVars, wtVars, wtsVars, obsVars, tagVars, kwVars, readerVars>>

\* each archive takes the RPMs found at its place within its own build
flat_index_per_build(archives_list, i, j) == j

RECURSIVE flat_index(_, _, _)
\* brew.py:213: the place of archive j of record i in
\* [ar for rec in archives_list for ar in rec or []]
flat_index(archives_list, i, j) ==
    IF i = 1 THEN j
    ELSE Len(archives_list[i - 1].items) + flat_index(archives_list, i - 1, j)

RECURSIVE flatten(_)
\* brew.py:213
flatten(archives_list) ==
    IF archives_list = <<>> THEN <<>>
    ELSE Head(archives_list).items \o flatten(Tail(archives_list))

\* brew.py:212-218: the RPMs of every archive are looked up with
\* list_image_rpms and stored in the archive records.
list_archives_join(fault) ==
    LET archives == flatten(batch.output)
        image_ids == [k \in 1..Len(archives) |-> archives[k].id]
        archives_rpms == [k \in 1..Len(image_ids) |-> listRPMs(image_ids[k])]
    IN
    /\ batch.pc = "archives"
    /\ IF fault
       THEN batch' = [batch EXCEPT !.pc = "raised",
                 !.rpm_requests = [k \in 1..Len(image_ids) |->
                                      [method |-> "listRPMs", arg |-> image_ids[k]]]]
       ELSE batch' = [batch EXCEPT
               !.pc = "returned",
               !.rpm_requests = [k \in 1..Len(image_ids) |->
                                    [method |-> "listRPMs", arg |-> image_ids[k]]],
               !.output = [i \in 1..Len(batch.output) |->
                   [batch.output[i] EXCEPT !.items =
                       [j \in 1..Len(batch.output[i].items) |->
                           [batch.output[i].items[j] EXCEPT !.rpms =
                               archives_rpms[flat_index(batch.output, i, j)]]]]]]
    /\ UNCHANGED <<envVars, wtVars, wtsVars, obsVars, tagVars, kwVars, readerVars>>

\* ------------------------------------------------------- specifications
InitWatchTask == InitEnv /\ InitWT /\ IdleWTs /\ InitObs /\ IdleTags /\ IdleLib
InitWatchTasks == InitEnv /\ IdleWT /\ InitWTs /\ InitObs /\ IdleTags /\ IdleLib

DoWatchTaskUpdate ==
    \E n \in Transients, final \in FinalOutcomes, d \in QueryDurations :
        watch_task_update(n, final, d)
DoWatchTaskCancel == \E returncode \in {0, 1} : watch_task_cancel(returncode)
DoWatchTasksUpdate ==
    \E n \in Transients, final \in FinalOutcomes, d \in QueryDurations :
        watch_tasks_update(n, final, d)
DoWatchTasksCancel == \E canceled \in BOOLEAN : watch_tasks_cancel(canceled)

NextWatchTask ==
    \/ DoWatchTaskUpdate
    \/ watch_task_wait
    \/ DoWatchTaskCancel
    \/ set_terminate_event

NextWatchTasks ==
    \/ watch_tasks_start
    \/ DoWatchTasksUpdate
    \/ watch_tasks_check
    \/ DoWatchTasksCancel
    \/ set_terminate_event

\* watch_task alone
SpecWatchTask == InitWatchTask /\ [][NextWatchTask]_vars
\* watch_tasks alone
SpecWatchTasks == InitWatchTasks /\ [][NextWatchTasks]_vars
\* a run of either watcher
SpecWatch ==
    /\ InitWatchTask \/ InitWatchTasks
    /\ [][NextWatchTask \/ NextWatchTasks]_vars

InitTags ==
    /\ InitEnv /\ terminate_event = FALSE /\ IdleWT /\ IdleWTs /\ InitObs /\ InitTagState
    /\ IdleLib

DoTagsChangedSinceBuild ==
    \E th \in Threads, build_event_id \in 1..MaxEvent, tag_ids \in TagIdLists :
        tags_changed_since_build(th, build_event_id, tag_ids)

NextTags ==
    \/ DoTagsChangedSinceBuild
    \/ \E th \in Threads : cache_lookup(th)
    \/ \E th \in Threads : fetch_tag_history(th)
    \/ \E th \in Threads : cache_store(th)
    \/ \E tid \in TagIds : tag_event(tid)

\* threads calling tags_changed_since_build
SpecTags == InitTags /\ [][NextTags]_vars

\* the one caller of the sequential specification
Caller == 1
\* the lists of tag ids that caller hands over: those of TagIdLists and
\* every pair, a tag id repeated included
QueriedLists == TagIdLists \cup (TagIds \X TagIds)

DoTagsChangedSinceBuildAlone ==
    \E build_event_id \in 1..MaxEvent, tag_ids \in QueriedLists :
        tags_changed_since_build(Caller, build_event_id, tag_ids)

NextTagCalls ==
    \/ DoTagsChangedSinceBuildAlone
    \/ cache_lookup(Caller)
    \/ fetch_tag_history(Caller)
    \/ cache_store(Caller)
    \/ \E tid \in TagIds : tag_event(tid)

\* one thread calling tags_changed_since_build, call after call
SpecTagCalls == InitTags /\ [][NextTagCalls]_vars

InitRetry ==
    /\ InitEnv /\ terminate_event = FALSE /\ IdleWT /\ IdleWTs /\ InitObs /\ IdleTags
    /\ IdleLib

DoWrappedCall == \E th \in Threads, answer \in WrappedAnswers : wrapped_call(th, answer)

NextRetry ==
    \/ \E th \in Threads : KojiWrapper_enter(th)
    \/ DoWrappedCall
    \/ \E th \in Threads : KojiWrapper_except(th)

\* threads calling a KojiWrapper
SpecRetry == InitRetry /\ [][NextRetry]_vars

InitBatch ==
    /\ InitEnv /\ terminate_event = FALSE /\ IdleWT /\ IdleWTs /\ InitObs /\ IdleTags
    /\ IdleLib

DoBatchEnqueue ==
    \E helper \in Helpers, inputs \in InputLists : batch_enqueue(helper, inputs)
DoBatchExecute == \E fault \in BOOLEAN : batch_execute(fault)
DoListArchivesJoin == \E fault \in BOOLEAN : list_archives_join(fault)

NextBatch ==
    \/ DoBatchEnqueue
    \/ DoBatchExecute
    \/ DoListArchivesJoin

\* calls of the batch query helpers
SpecBatch == InitBatch /\ [][NextBatch]_vars

\* watch_tasks queries a task and is answered at once; the wire fails only
\* during the first passes
DoWatchTasksUpdateEarlyErrors ==
    \E n \in Transients, final \in FinalOutcomes :
        /\ n = 0 \/ passes <= MaxErrorPasses
        /\ watch_tasks_update(n, final, 0)

NextSnapshots ==
    \/ NextWatchTask
    \/ watch_tasks_start
    \/ DoWatchTasksUpdateEarlyErrors
    \/ watch_tasks_check
    \/ DoWatchTasksCancel
    \/ get_watch_task_info_copy

\* a run of either watcher while readers copy watch_task_info
SpecSnapshots ==
    /\ InitWatchTask \/ InitWatchTasks
    /\ [][NextSnapshots]_vars

TypeOK ==
    /\ pc \in {"idle", "update", "wait", "cancel", "returned", "raised"}
    /\ wts_pc \in {"idle", "start", "poll", "cancel", "returned", "returned_none", "raised"}
    /\ except_count \in 0..GiveUpAfter
    /\ cancel_calls \in 0..1
    /\ tasks_to_poll \subseteq task_ids
    /\ pending \subseteq tasks_to_poll

\* ------------------------------------------------------------ properties
WT_Terminal == pc \in {"returned", "raised"}
WTs_Terminal == wts_pc \in {"returned", "returned_none", "raised"}
\* the last successful status query of watch_task reported the task done
WT_Completed == TheTask \in DOMAIN watch_task_info /\ is_done(watch_task_info[TheTask].state)
LocalOutcomes == {"Interrupted", "Timeout building image", format_exc(ConnectionError)}

\* C1 as stated: every run of watch_task that ends otherwise than in success
\* has run the remote cancel, and a successful run has not.
C1_CancelUnlessSuccess ==
    /\ (WT_Terminal /\ ~(pc = "returned" /\ result = None)) => cancel_calls = 1
    /\ (pc = "returned" /\ result = None) => cancel_calls = 0

\* C1 amended: when watch_task ends, the remote cancel has been run exactly
\* when the watcher itself ended the watch (give-up, timeout, interruption);
\* it has not been run when the remote service reported the task done, be it
\* success or failure.
C1_CancelIffWatcherEnded ==
    WT_Terminal =>
        /\ cancel_calls = 1 <=> error \in LocalOutcomes
        /\ cancel_calls = 0 <=> WT_Completed
        /\ WT_Completed <=> error = None

C1_Witness == pc = "returned" /\ result = "Timeout building image" /\ cancel_calls = 1

\* C2: when watch_tasks ends, cancelTask has been called for exactly the
\* tasks whose recorded outcome is not success.
C2_CancelTaskForNonSuccess ==
    wts_pc \in {"returned", "raised"} =>
        cancelTask_calls = {t \in DOMAIN errors : errors[t] # None}

\* C3: for a non-empty collection of task ids, watch_tasks ends by returning
\* a mapping over exactly the submitted ids, None for the tasks that
\* succeeded and a detail for the others.
C3_ReturnsMappingForAll ==
    (WTs_Terminal /\ task_ids # {}) =>
        /\ wts_pc = "returned"
        /\ DOMAIN wts_result = task_ids
        /\ \A t \in task_ids :
              wts_result[t] = None <=>
                  (t \in DOMAIN watch_task_info /\ is_success(watch_task_info[t].state))

\* C4: when the cancel command fails, watch_task still returns the detail of
\* the outcome that led to the cancel.
C4_CancelFailureKeepsDetail ==
    cancel_failed => (pc = "returned" /\ result = error)

\* C5: except_count is the number of status queries that raised since the
\* last one that did not; watch_task gives up exactly when 10 queries in a
\* row have raised, the detail returned is then the captured error, and 9
\* failures followed by a query reporting success give None.
C5_GiveUpAfterTenInARow ==
    /\ except_count = streak
    /\ error = format_exc(ConnectionError) <=> streak = GiveUpAfter
    /\ streak < GiveUpAfter => error \in {None, "Interrupted", "Timeout building image"}
    /\ (pc = "returned" /\ streak = GiveUpAfter) => result = format_exc(ConnectionError)
    /\ (pc = "returned" /\ prev_streak = GiveUpAfter - 1 /\ streak = 0
            /\ watch_task_info[TheTask].state = "CLOSED") => result = None

C5_Witness ==
    pc = "returned" /\ streak = GiveUpAfter /\ result = format_exc(ConnectionError)

\* C6 as stated: with the termination event set before the first poll,
\* watch_task returns 'Interrupted' after at most one status query and one
\* remote cancel, whatever the query answered.
C6_PresetAlwaysInterrupted ==
    (preset /\ pc = "returned") =>
        (result = "Interrupted" /\ queries <= 1 /\ cancel_calls = 1)

\* C6 amended: with the termination event set before the first poll,
\* watch_task makes exactly one status query; when that query reports the
\* task still running or raises, the outcome is 'Interrupted' and the remote
\* cancel is run; when it reports the task done, watch_task returns the
\* completion outcome and runs no cancel.
C6_PresetOneQuery ==
    preset =>
        /\ queries <= 1
        /\ WT_Terminal =>
              /\ queries = 1
              /\ IF WT_Completed
                 THEN /\ pc = "returned"
                      /\ cancel_calls = 0
                      /\ result = IF is_success(watch_task_info[TheTask].state) THEN None
                                  ELSE get_failure(watch_task_info[TheTask].state)
                 ELSE /\ error = "Interrupted"
                      /\ cancel_calls = 1
                      /\ pc = "returned" => result = "Interrupted"

C6_Witness ==
    /\ preset /\ pc = "returned" /\ result = "Interrupted"
    /\ wire.raised = ConnectionError /\ queries = 1

\* C7: a watch that ends because the deadline passed (no completion, no
\* termination signal) returns the timeout detail.
C7_TimeoutIsReturned ==
    /\ (WT_Terminal /\ error = "Timeout building image") =>
          (pc = "returned" /\ result = "Timeout building image")
    /\ (wts_pc \in {"returned", "raised"} /\ tasks_to_poll # {}
            /\ ~terminate_event /\ clock > wts_end) =>
          /\ wts_pc = "returned"
          /\ \A t \in tasks_to_poll : wts_result[t] = "Timeout watching task"

\* a step that is one status query of watch_task or of watch_tasks
UpdateStep ==
    \/ pc = "update" /\ pc' # "update"
    \/ wts_pc = "poll" /\ pending # {} /\ pending' # pending

\* C8 as stated: a status query that met fewer transient connection errors
\* than the retry cap does not raise the connection error to the watcher.
C8_TransientAbsorbed ==
    wire.transients \in 1..(Retries - 1) => wire.raised # ConnectionError

\* C8 amended: the watchers query through an unwrapped session, so a
\* transient connection error met by a status query is raised to the watcher,
\* whose handler adds one to the consecutive-failure counter of that task.
C8_TransientReachesWatcher ==
    [][(UpdateStep /\ wire'.transients >= 1) =>
          /\ wire'.raised = ConnectionError
          /\ pc = "update" => except_count' = except_count + 1
          /\ wts_pc = "poll" =>
                except_counts'[wire'.task] = except_counts[wire'.task] + 1]_vars

C8_Witness ==
    /\ wts_pc = "poll"
    /\ wire.transients = 1 /\ wire.raised = ConnectionError
    /\ except_counts[wire.task] = 1

\* C9: the remote tagHistory fetch is made at most once per tag id, however
\* many calls and threads query it.
C9_FetchedOncePerTag ==
    \A tid \in TagIds : tagHistory_calls[tid] <= 1

\* C10: an entry of latest_tag_change_cache is never removed and never
\* changes its value.
C10_CacheEntryStable ==
    [][\A tid \in DOMAIN latest_tag_change_cache :
          /\ tid \in DOMAIN latest_tag_change_cache'
          /\ latest_tag_change_cache'[tid] = latest_tag_change_cache[tid]]_vars

\* the records of the cache that a call for tag_ids must return
RECURSIVE changed_records(_, _, _)
changed_records(tag_ids, build_event_id, cache) ==
    IF tag_ids = <<>> THEN <<>>
    ELSE LET rec == cache[Head(tag_ids)] IN
         (IF rec = <<>> THEN <<>>
          ELSE IF rec[1].create_event > build_event_id THEN <<rec[1]>>
          ELSE <<>>)
         \o changed_records(Tail(tag_ids), build_event_id, cache)

\* C11: a finished call of tags_changed_since_build has returned, in the
\* order of tag_ids, exactly the cached records whose create_event is
\* strictly greater than the build's creation_event_id; a tag whose latest
\* event is not newer than the build, or which has no history, has no record
\* in the result.
C11_ResultIsNewerRecords ==
    LET c == calls[Caller] IN
    c.pc = "done" =>
        /\ \A j \in 1..Len(c.tag_ids) : c.tag_ids[j] \in DOMAIN latest_tag_change_cache
        /\ c.result = changed_records(c.tag_ids, c.build_event_id, latest_tag_change_cache)
        /\ \A tid \in TagIds :
              tag_history[tid] <= c.build_event_id =>
                  \A k \in 1..Len(c.result) : c.result[k].tag_id # tid

\* a call for two tags has returned one record and left out a tag whose
\* cached event equals the build's
C11_Witness ==
    LET c == calls[Caller] IN
    /\ c.pc = "done"
    /\ Len(c.tag_ids) = 2
    /\ Len(c.result) = 1
    /\ \E j \in 1..2 :
          /\ latest_tag_change_cache[c.tag_ids[j]] # <<>>
          /\ latest_tag_change_cache[c.tag_ids[j]][1].create_event = c.build_event_id


\* C12: a call of the wrapper invokes the wrapped callable at most 4 times;
\* when it returns, it returns the value of its last invocation, every
\* earlier one having raised a connection error that was slept on; when it
\* raises a connection error, the callable was invoked 4 times and the error
\* is the one of the 4th invocation.
C12_BoundedRetry ==
    \A th \in Threads :
        LET w == wrapped_calls[th] IN
        /\ w.invocations <= Retries
        /\ w.pc = "returned" =>
              /\ w.returned.value \in Values
              /\ w.returned.attempt = w.invocations
              /\ w.sleeps = w.invocations - 1
        /\ (w.pc = "raised" /\ w.raised.type = ConnectionError) =>
              /\ w.invocations = Retries
              /\ w.raised.attempt = Retries

\* one call has returned the value of its 4th invocation and another has
\* raised after four connection errors
C12_Witness ==
    /\ \E th \in Threads :
          /\ wrapped_calls[th].pc = "returned"
          /\ wrapped_calls[th].returned.attempt = Retries
    /\ \E th \in Threads :
          /\ wrapped_calls[th].pc = "raised"
          /\ wrapped_calls[th].raised.type = ConnectionError

\* C13: an error of the wrapped callable that is no connection error leaves
\* the wrapper at the invocation that raised it: no invocation follows, and
\* the only waits are those of the connection errors before it.
C13_OtherErrorPropagates ==
    \A th \in Threads :
        LET w == wrapped_calls[th] IN
        (w.pc = "raised" /\ w.raised.type # ConnectionError) =>
            /\ w.raised.type = GenericError
            /\ w.raised.attempt = w.invocations
            /\ w.sleeps = w.invocations - 1
            /\ w.retries = Retries - (w.invocations - 1)

\* one call has raised the other error at its first invocation, another at
\* an invocation that followed connection errors
C13_Witness ==
    /\ \E th \in Threads :
          /\ wrapped_calls[th].pc = "raised"
          /\ wrapped_calls[th].raised = [type |-> GenericError, attempt |-> 1]
    /\ \E th \in Threads :
          /\ wrapped_calls[th].pc = "raised"
          /\ wrapped_calls[th].raised.type = GenericError
          /\ wrapped_calls[th].raised.attempt > 1

\* C14 as claimed: every helper returns a list as long as its input whose
\* i-th element is the result for the i-th input, with None and no
\* sub-request at every position whose input is falsy.
C14_FalsyIsNoneEverywhere ==
    batch.pc = "returned" =>
        /\ Len(batch.output) = Len(batch.inputs)
        /\ \A i \in 1..Len(batch.inputs) :
              IF falsy(batch.inputs[i])
              THEN /\ batch.output[i] = NoneResult
                   /\ \A k \in 1..Len(batch.requests) : ~falsy(batch.requests[k].arg)
              ELSE batch.output[i].arg = batch.inputs[i]

\* the helpers that test their input before enqueueing
TestsInput == {"get_latest_builds", "list_archives_by_builds"}

\* C14: every helper that returns, returns a list as long as its input whose
\* i-th element is the result of the helper's remote method for the i-th
\* input; get_latest_builds and list_archives_by_builds return None at the
\* positions of falsy inputs and enqueue no sub-request for them; the other
\* five enqueue one sub-request for every input, falsy ones included.
C14_PositionalResults ==
    LET tested(i) == batch.helper \in TestsInput /\ falsy(batch.inputs[i])
        asked == {i \in 1..Len(batch.inputs) : ~tested(i)}
    IN
    /\ batch.pc # "idle" =>
          /\ Len(batch.requests) = Cardinality(asked)
          /\ \A k \in 1..Len(batch.requests) :
                /\ batch.requests[k].method = method_of(batch.helper)
                /\ \E i \in asked : batch.requests[k].arg = batch.inputs[i]
          /\ batch.helper \in TestsInput =>
                \A k \in 1..Len(batch.requests) : ~falsy(batch.requests[k].arg)
    /\ batch.pc = "returned" =>
          /\ Len(batch.output) = Len(batch.inputs)
          /\ \A i \in 1..Len(batch.inputs) :
                IF tested(i)
                THEN batch.output[i] = NoneResult
                ELSE /\ batch.output[i].method = method_of(batch.helper)
                     /\ batch.output[i].arg = batch.inputs[i]

\* a helper that tests its input has returned for a falsy input followed by
\* another one
C14_Witness ==
    /\ batch.pc = "returned"
    /\ batch.helper = "get_latest_builds"
    /\ Len(batch.inputs) = 2
    /\ falsy(batch.inputs[1])
    /\ ~falsy(batch.inputs[2])
    /\ batch.output[2].arg = batch.inputs[2]

\* C20: when list_archives_by_builds returns, every position of a falsy
\* build id holds None and no listArchives was enqueued for it; every other
\* position holds the archives of its build, each carrying as "rpms" the
\* listRPMs result of its own id; and one listRPMs lookup was enqueued per
\* archive, in the order of the archives.
C20_ArchivesCarryOwnRpms ==
    (batch.helper = "list_archives_by_builds" /\ batch.pc = "returned") =>
        LET out == batch.output
            archives == flatten(out)
        IN
        /\ \A i \in 1..Len(batch.inputs) :
              IF falsy(batch.inputs[i])
              THEN out[i] = NoneResult
              ELSE /\ Len(out[i].items) = Len(listArchives(batch.inputs[i]))
                   /\ \A j \in 1..Len(out[i].items) :
                         /\ out[i].items[j].id = listArchives(batch.inputs[i])[j].id
                         /\ out[i].items[j].rpms = "rpms of " \o out[i].items[j].id
        /\ \A k \in 1..Len(batch.requests) : ~falsy(batch.requests[k].arg)
        /\ Len(batch.rpm_requests) = Len(archives)
        /\ \A k \in 1..Len(archives) :
              batch.rpm_requests[k] = [method |-> "listRPMs", arg |-> archives[k].id]

\* list_archives_by_builds has returned for a falsy build id and a build
\* with archives, or for two builds with archives
C20_Witness ==
    /\ batch.helper = "list_archives_by_builds"
    /\ batch.pc = "returned"
    /\ Len(batch.inputs) = 2
    /\ batch.output[1].items # <<>>
    /\ batch.output[2].items # <<>>
    /\ batch.output[1].items[1].id # batch.output[2].items[1].id

\* the payloads the remote service can answer for a task
Payloads(t) ==
    {[id |-> t, state |-> "OPEN", completion_ts |-> None],
     [id |-> t, state |-> "CLOSED", completion_ts |-> "set"],
     [id |-> t, state |-> "FAILED", completion_ts |-> "set"]}

\* every entry of the store and of a reader's copy is one whole payload of its
\* task, and an outcome the remote service reported rests on a stored payload
C15_StoredPayloads ==
    /\ \A t \in DOMAIN watch_task_info : watch_task_info[t] \in Payloads(t)
    /\ \A t \in DOMAIN info_copy : info_copy[t] \in Payloads(t)
    /\ (pc = "returned" /\ result \notin LocalOutcomes) =>
          /\ TheTask \in DOMAIN watch_task_info
          /\ watch_task_info[TheTask].state \in {"CLOSED", "FAILED"}
          /\ result = None <=> watch_task_info[TheTask].state = "CLOSED"
    /\ \A t \in DOMAIN errors :
          errors[t] \notin (LocalOutcomes \cup {"Timeout watching task"}) =>
              /\ t \in DOMAIN watch_task_info
              /\ watch_task_info[t].state \in {"CLOSED", "FAILED"}
              /\ errors[t] = None <=> watch_task_info[t].state = "CLOSED"

\* a status query that succeeded replaces the entry of its task by its
\* payload and leaves the other entries; no other step changes the store
C15_WriteStep ==
    IF UpdateStep /\ wire'.raised = None
    THEN watch_task_info' =
            [t \in DOMAIN watch_task_info \cup {wire'.task} |->
                IF t = wire'.task THEN wire'.info ELSE watch_task_info[t]]
    ELSE watch_task_info' = watch_task_info

\* a reader is handed the store as it is
C15_CopyStep == info_copy' # info_copy => info_copy' = watch_task_info

\* C15: each entry of watch_task_info, and of a dict returned by
\* get_watch_task_info_copy, is the whole payload of the most recent
\* successful status query of its task (at the time of the copy, for a
\* copy): a successful query replaces the entry before the terminal check,
\* nothing else writes, and a task that returned success or remote failure
\* has its final payload stored.
C15_ReplaceOnWrite == [][C15_StoredPayloads' /\ C15_WriteStep /\ C15_CopyStep]_vars

\* a reader holds the payload of an earlier query of a task whose entry a
\* later query has replaced by the final payload
C15_Witness ==
    \E t \in DOMAIN info_copy :
        /\ info_copy[t].state = "OPEN"
        /\ watch_task_info[t].state = "CLOSED"
        /\ watch_task_info[t].completion_ts = "set"

\* the detail recorded for a task that is given up
GivenUp(t) == t \in DOMAIN errors /\ errors[t] = format_exc(ConnectionError)

\* a task is given up exactly when its own counter stands at 10
C16_GivenUpAtTen ==
    /\ wts_pc \in {"poll", "cancel", "returned", "raised"} => DOMAIN except_counts = task_ids
    /\  \A t \in DOMAIN except_counts :
            /\ except_counts[t] \in 0..GiveUpAfter
            /\ except_counts[t] = GiveUpAfter <=> GivenUp(t)
            /\ GivenUp(t) => t \in tasks_to_cancel /\ t \notin tasks_to_poll

\* a status query changes the counter of its own task only (one more when it
\* raised, zero when it did not) and removes at most its own task from the
\* polling set; no other step changes a counter
C16_CounterStep ==
    IF wts_pc = "poll" /\ pending # {} /\ pending' # pending
    THEN LET t == wire'.task IN
         /\ except_counts'[t] = IF wire'.raised = None THEN 0 ELSE except_counts[t] + 1
         /\ \A u \in DOMAIN except_counts \ {t} :
               /\ except_counts'[u] = except_counts[u]
               /\ u \in tasks_to_poll <=> u \in tasks_to_poll'
    ELSE wts_pc \notin {"idle", "start"} => except_counts' = except_counts

\* C16: watch_tasks keeps one consecutive-failure counter per task: a status
\* query of one task changes that task's counter only, a task is given up
\* exactly when its own counter reaches 10, and giving up on it leaves every
\* other task in the polling set with its counter unchanged.
C16_IndependentCounters == [][C16_GivenUpAtTen' /\ C16_CounterStep]_vars

\* one task has been given up while another is still polled with a counter
\* that was reset
C16_Witness ==
    \E t, u \in task_ids :
        /\ GivenUp(t)
        /\ except_counts[t] = GiveUpAfter
        /\ u \in tasks_to_poll
        /\ except_counts[u] = 0
        /\ u \in DOMAIN watch_task_info

\* the loop of watch_tasks is left
LoopExit == wts_pc = "poll" /\ wts_pc' # "poll"

\* the outcomes after the loop is left with detail for the tasks still polled
Remaining(detail) ==
    /\ DOMAIN errors' = DOMAIN errors \cup tasks_to_poll
    /\ \A t \in tasks_to_poll : errors'[t] = detail
    /\ \A t \in DOMAIN errors \ tasks_to_poll : errors'[t] = errors[t]

\* C17: the loop of watch_tasks is left only after a whole pass over the
\* polling set; with an empty polling set it is left without waiting; with
\* the termination signal raised every task still polled gets 'Interrupted';
\* with the deadline exceeded every task still polled gets the timeout
\* detail; the tasks that have an outcome keep it; otherwise the loop goes on
\* and no outcome is written by the exit tests.
C17_LoopExit ==
    [][/\ LoopExit => pending = {}
       /\ (LoopExit /\ tasks_to_poll = {}) => (clock' = clock /\ errors' = errors)
       /\ (LoopExit /\ tasks_to_poll # {} /\ terminate_event) =>
              (clock' = clock /\ Remaining("Interrupted"))
       /\ (LoopExit /\ tasks_to_poll # {} /\ ~terminate_event) =>
              /\ clock' = clock + WaitTimeout
              /\ clock' > wts_end
              /\ Remaining("Timeout watching task")
       /\ (wts_pc = "poll" /\ pending = {} /\ ~LoopExit /\ passes' # passes) =>
              /\ tasks_to_poll # {}
              /\ ~terminate_event
              /\ clock' = clock + WaitTimeout
              /\ clock' <= wts_end
              /\ errors' = errors
              /\ pending' = tasks_to_poll
      ]_vars

\* the loop has been left on the termination signal with one task still
\* polled and another one that had failed remotely
C17_Witness ==
    /\ wts_pc = "cancel"
    /\ \E t, u \in DOMAIN errors :
          /\ errors[t] = "Interrupted"
          /\ t \in tasks_to_poll
          /\ errors[u] = get_failure("FAILED")

\* the loop of watch_tasks has been left
LoopExited == wts_pc \in {"cancel", "returned", "raised"}

\* C18: a task of watch_tasks has a recorded outcome exactly when it is no
\* longer polled (it has left the polling set, or the loop has been left);
\* a task with a recorded outcome is not queried again, and its outcome is
\* changed by no later step, be it a pass, the termination signal or the
\* deadline.
C18_OutcomesAreFinal ==
    [][/\ wts_pc' \in {"poll", "cancel", "returned", "raised"} =>
             \A t \in task_ids :
                 t \in DOMAIN errors' <=> (t \notin tasks_to_poll' \/ LoopExited')
       /\ \A t \in DOMAIN errors :
             /\ t \in DOMAIN errors'
             /\ errors'[t] = errors[t]
       /\ (wts_pc = "poll" /\ pending # {} /\ pending' # pending) =>
             /\ wire'.task \notin DOMAIN errors
             /\ wire'.task \in tasks_to_poll
       /\ LoopExited => UNCHANGED <<wire, watch_task_info, errors>>
      ]_vars

\* after the loop was left on the deadline, in a pass later than the first,
\* one task holds the outcome an earlier pass recorded and another the
\* timeout detail
C18_Witness ==
    /\ LoopExited
    /\ passes > 1
    /\ \E t, u \in DOMAIN errors :
          /\ errors[t] = None
          /\ t \notin tasks_to_poll
          /\ errors[u] = "Timeout watching task"
          /\ u \in tasks_to_poll

\* a line handed to log_f that names task t and carries detail
LoggedWith(t, detail) ==
    \E line \in log_lines :
        /\ Len(line) >= 3
        /\ line[2] = t
        /\ \E j \in DOMAIN line \ {2} : line[j] = detail

\* C19: when watch_task or watch_tasks has returned an outcome that is not
\* success for a task, a line naming the task id and carrying the detail has
\* been handed to log_f.
C19_NonSuccessIsLogged ==
    /\ (pc = "returned" /\ result # None) => LoggedWith(TheTask, result)
    /\ wts_pc = "returned" =>
          \A t \in DOMAIN wts_result :
              wts_result[t] # None => LoggedWith(t, wts_result[t])

\* watch_task passes its poll boundary: the termination wait and the
\* deadline test
WaitStep == pc = "wait" /\ pc' # "wait"

\* C21: at a poll boundary of watch_task or watch_tasks where the
\* termination signal is set, the task or tasks still polled get
\* 'Interrupted', also when the clock is past the deadline; the timeout
\* detail is assigned only at a boundary whose termination wait ran its
\* whole time unsignalled.
C21_InterruptionBeforeTimeout ==
    [][/\ (WaitStep /\ terminate_event) =>
              (error' = "Interrupted" /\ clock' = clock)
       /\ (WaitStep /\ error' = "Timeout building image") =>
              /\ ~terminate_event
              /\ clock' = clock + WaitTimeout
              /\ clock' > end
       /\ (LoopExit /\ tasks_to_poll # {} /\ terminate_event) =>
              /\ clock' = clock
              /\ \A t \in tasks_to_poll : errors'[t] = "Interrupted"
       /\ (LoopExit /\ \E t \in tasks_to_poll : errors'[t] = "Timeout watching task") =>
              /\ ~terminate_event
              /\ clock' = clock + WaitTimeout
              /\ clock' > wts_end
      ]_vars

\* a watcher has passed a boundary with the signal set and the clock past
\* its deadline, and the task it still polled is 'Interrupted'
C21_Witness ==
    \/ /\ pc = "cancel"
       /\ terminate_event
       /\ clock > end
       /\ error = "Interrupted"
    \/ /\ wts_pc = "cancel"
       /\ terminate_event
       /\ clock > wts_end
       /\ \E t \in tasks_to_poll : errors[t] = "Interrupted"
====
